---- MODULE Spec2Model ----
(***************************************************************************)
(* Markowitz mean-variance engine of AngleOneSmartAPI:                     *)
(*   src/SmartApi/markowitz_optimizer.py   (estimator, metrics, solves)    *)
(*   src/markowitz_portfolio_angleone.py   (data fetch, orchestration)     *)
(*                                                                         *)
(* Numbers.  Floats are fixed point.  Returns, mu and the risk-free rate   *)
(* are in percent (0.07 is 7).  A weight vector over n assets is a vector  *)
(* of integers in units of 1/One(n), so "1.0" in the sum constraint and    *)
(* in the box bounds is One(n).  Portfolio return and volatility are kept  *)
(* in the product unit (percent / One(n)), which is what np.dot yields on  *)
(* such vectors.  A float that can be NaN or infinite is a record          *)
(* [k, v] with k in {"num", "nan", "inf", "-inf"}.                         *)
(***************************************************************************)
EXTENDS Integers, Sequences, FiniteSets, TLC

\* ------------------------------------------------------------------ bounds
\* Most candles the broker returns for one symbol.
MaxCandles == 3
\* Largest n_points a caller passes explicitly to efficient_frontier.
MaxPoints == 3
\* Iteration cap of one SLSQP solve (scipy's default maxiter is 100).
MaxIter == 1
\* Most solves of one run that fail to converge.
MaxFailures == 1
\* Weight grid: a weight is a multiple of 1 / (n * Resolution).
Resolution == 1

\* ------------------------------------------------------- program constants
trading_days == 252
\* risk_free: float = 0.07, in percent
default_risk_free == 7
\* efficient_frontier(..., n_points: int = 50, ...)
default_n_points == 50
\* build_markowitz_portfolio: efficient_frontier(mu, cov, n_points=30, ...)
build_n_points == 30

\* ------------------------------------------------------------------ floats
Num(v) == [k |-> "num", v |-> v]
NaN == [k |-> "nan", v |-> 0]
PosInf == [k |-> "inf", v |-> 0]
NegInf == [k |-> "-inf", v |-> 0]
IsNum(x) == x.k = "num"

RECURSIVE SumSeq(_)
SumSeq(s) == IF s = <<>> THEN 0 ELSE Head(s) + SumSeq(Tail(s))

RECURSIVE ISqrtBetween(_, _, _)
\* Largest r in lo..hi with r * r <= v (lo * lo <= v is given).
ISqrtBetween(v, lo, hi) ==
    IF lo >= hi THEN lo
    ELSE LET mid == (lo + hi + 1) \div 2
         IN  IF mid * mid <= v THEN ISqrtBetween(v, mid, hi)
             ELSE ISqrtBetween(v, lo, mid - 1)

ISqrt(v) == ISqrtBetween(v, 0, IF v < 46340 THEN v ELSE 46340)

\* np.sqrt: NaN for NaN and for a negative argument.
FSqrt(x) == IF IsNum(x) /\ x.v >= 0 THEN Num(ISqrt(x.v)) ELSE NaN

\* Python's `x <= 0` on a float: False for NaN.
FLeqZero(x) == (IsNum(x) /\ x.v <= 0) \/ x.k = "-inf"

\* numpy float division a / x of a number a by a float x, to 1/100.
FDiv(a, x) ==
    CASE x.k = "nan" -> NaN
      [] x.k \in {"inf", "-inf"} -> Num(0)
      [] x.v = 0 -> (IF a = 0 THEN NaN ELSE IF a > 0 THEN PosInf ELSE NegInf)
      [] OTHER -> Num((a * 100) \div x.v)

FNeg(x) ==
    CASE x.k = "inf" -> NegInf
      [] x.k = "-inf" -> PosInf
      [] x.k = "nan" -> NaN
      [] OTHER -> Num(0 - x.v)

\* ------------------------------------------------------------ market data
\* The symbols a caller asks for and the closes the broker has for them.
Symbols == <<"A", "B", "C">>

\* Close of symbol s on trading day t (1 is the oldest day of the window).
\* A swings, B trends, C never moves (a zero-variance asset).
Close(s, t) ==
    CASE s = "A" -> 100 + 6 * (t % 2)
      [] s = "B" -> 50 + t * t
      [] OTHER -> 20

One(n) == n * Resolution

EqualWeights(n) == [i \in 1..n |-> Resolution]

\* ------------------------------------------------- fetch_historical_returns
\* closes is the dict of line 114 in insertion order: a sequence of
\* [sym, k], k the number of candles fetched for sym.  A symbol with k
\* candles has the last k trading days of the window.
MaxK(cl) == CHOOSE m \in {cl[i].k : i \in 1..Len(cl)} :
                \A j \in 1..Len(cl) : cl[j].k <= m

FirstDay(k) == MaxCandles - k + 1

\* pd.DataFrame(closes).sort_index().ffill().bfill(): the index is the union
\* of the days; a day before a symbol's first candle is back-filled.
PriceAt(c, d) == IF d >= FirstDay(c.k) THEN Close(c.sym, d)
                 ELSE Close(c.sym, FirstDay(c.k))

\* One value of pct_change, in percent.
PctChange(prev, cur) == (100 * (cur - prev)) \div prev

\* price_df.pct_change().dropna(): the first row is all NaN and is dropped.
ReturnsOf(cl) ==
    LET rows == MaxK(cl)
        first == FirstDay(rows)
    IN  [columns |-> [i \in 1..Len(cl) |-> cl[i].sym],
         rows |-> [t \in 1..(rows - 1) |->
                     [i \in 1..Len(cl) |->
                        PctChange(PriceAt(cl[i], first + t - 1),
                                  PriceAt(cl[i], first + t))]]]

\* ------------------------------------------ expected_returns_and_covariance
Column(returns, i) == [t \in 1..Len(returns.rows) |-> returns.rows[t][i]]

\* returns.mean(axis=0).values * trading_days
MeanReturn(returns, i) ==
    (SumSeq(Column(returns, i)) \div Len(returns.rows)) * trading_days

\* returns.cov().values * trading_days, the N-1 sample covariance:
\* (T * sum(xy) - sum(x) * sum(y)) / (T * (T - 1)).
SampleCov(returns, i, j) ==
    LET T == Len(returns.rows)
        x == Column(returns, i)
        y == Column(returns, j)
        xy == [t \in 1..T |-> x[t] * y[t]]
    IN  ((T * SumSeq(xy) - SumSeq(x) * SumSeq(y)) * trading_days)
            \div (T * (T - 1))

\* With fewer than 2 rows pandas' cov() is all NaN; nothing is raised.
expected_returns_and_covariance(returns) ==
    LET n == Len(returns.columns)
    IN  [mu |-> [i \in 1..n |-> MeanReturn(returns, i)],
         cov |-> IF Len(returns.rows) < 2
                 THEN [nan |-> TRUE, m |-> [i \in 1..n |-> [j \in 1..n |-> 0]]]
                 ELSE [nan |-> FALSE,
                       m |-> [i \in 1..n |->
                                [j \in 1..n |-> SampleCov(returns, i, j)]]]]

\* ----------------------------------------------------------------- metrics
Dot(a, b) == SumSeq([i \in 1..Len(a) |-> a[i] * b[i]])

\* np.dot(weights, mu)
portfolio_return(weights, mu) == Dot(weights, mu)

\* np.sqrt(np.dot(weights.T, np.dot(cov, weights)))
portfolio_volatility(weights, cov) ==
    FSqrt(IF cov.nan THEN NaN
          ELSE Num(Dot(weights, [i \in 1..Len(weights) |-> Dot(cov.m[i], weights)])))

\* portfolio_sharpe without its `if vol <= 0` guard.
portfolio_sharpe_unguarded(weights, mu, cov, risk_free) ==
    FDiv(portfolio_return(weights, mu) - risk_free * One(Len(weights)),
         portfolio_volatility(weights, cov))

portfolio_sharpe(weights, mu, cov, risk_free) ==
    LET ret == portfolio_return(weights, mu)
        vol == portfolio_volatility(weights, cov)
    IN  IF FLeqZero(vol) THEN Num(0)
        ELSE FDiv(ret - risk_free * One(Len(weights)), vol)

\* np.sum(x) - 1.0
weight_constraint_sum_one(x) == SumSeq(x) - One(Len(x))

\* ------------------------------------------- scipy.optimize.minimize (SLSQP)
\* A problem is what one minimize(...) call is given:
\*   kind    "mv" (volatility), "ms" (negated Sharpe), "fr" (volatility at a
\*           target return)
\*   lo, hi  the box bound of every asset, x0 the initial guess,
\*   target  the t the return constraint of a frontier point is bound to.
Problem(kind, n, lo, hi, target, risk_free) ==
    [kind |-> kind, n |-> n, lo |-> lo, hi |-> hi, target |-> target,
     risk_free |-> risk_free, x0 |-> EqualWeights(n)]

\* The grid points inside the box that satisfy the sum-to-one constraint.
Feasible(p) ==
    {w \in {Append(h, One(p.n) - SumSeq(h)) : h \in [1..(p.n - 1) -> p.lo..p.hi]} :
        /\ w[p.n] >= p.lo
        /\ w[p.n] <= p.hi
        /\ weight_constraint_sum_one(w) = 0}

Abs(x) == IF x < 0 THEN 0 - x ELSE x

\* lambda w, t=target: portfolio_return(w, mu) - t
return_constraint(w, mu, t) == portfolio_return(w, mu) - t

\* The feasible points of a problem: for a frontier point, those whose
\* return constraint is met as closely as the weight grid allows.
Candidates(p, mu) ==
    LET F == Feasible(p)
    IN  IF p.kind # "fr" THEN F
        ELSE LET gap == [w \in F |-> Abs(return_constraint(w, mu, p.target))]
             IN  {w \in F : \A v \in F : gap[w] <= gap[v]}

\* The objective handed to minimize.
Objective(p, mu, cov, w) ==
    IF p.kind = "ms" THEN FNeg(portfolio_sharpe(w, mu, cov, p.risk_free))
    ELSE portfolio_volatility(w, cov)

\* What a converged solve leaves in result.x: the minimiser over the
\* candidates; where the objective is NaN the solver cannot move off x0.
Converged(p, mu, cov) ==
    LET C == Candidates(p, mu)
        obj == [w \in C |-> Objective(p, mu, cov, w)]
    IN  IF C = {} \/ \E w \in C : ~IsNum(obj[w]) THEN p.x0
        ELSE CHOOSE w \in C : \A v \in C : obj[w].v <= obj[v].v

\* What a failed solve leaves in result.x: the last iterate, which need not
\* satisfy the bounds or the constraints.
LastIterate(p) == [i \in 1..p.n |-> IF i = 1 THEN p.hi + 1 ELSE p.lo - 1]

Outcomes(p, mu, cov, may_fail) ==
    {[success |-> TRUE, x |-> Converged(p, mu, cov)]}
        \cup (IF may_fail
              THEN {[success |-> FALSE, x |-> LastIterate(p)]}
              ELSE {})

\* ------------------------------------------------------ optimal_weights_df
RECURSIVE InsertDescending_ascending(_, _)
\* sort_values with ascending=True.
InsertDescending_ascending(row, rows) ==
    IF rows = <<>> THEN <<row>>
    ELSE IF row.weight < Head(rows).weight THEN <<row>> \o rows
    ELSE <<Head(rows)>> \o InsertDescending_ascending(row, Tail(rows))

RECURSIVE InsertDescending(_, _)
\* Insert row into rows, already in descending weight order.
InsertDescending(row, rows) ==
    IF rows = <<>> THEN <<row>>
    ELSE IF row.weight > Head(rows).weight THEN <<row>> \o rows
    ELSE <<Head(rows)>> \o InsertDescending(row, Tail(rows))

RECURSIVE SortValuesDescending(_)
\* DataFrame.sort_values("weight", ascending=False): rows move whole.
SortValuesDescending(rows) ==
    IF rows = <<>> THEN <<>>
    ELSE InsertDescending(rows[Len(rows)],
                          SortValuesDescending(SubSeq(rows, 1, Len(rows) - 1)))

\* pd.DataFrame({"symbol": symbols, "weight": weights})
DataFrame(symbols, weights) ==
    [i \in 1..Len(symbols) |-> [symbol |-> symbols[i], weight |-> weights[i]]]

optimal_weights_df(symbols, weights) ==
    SortValuesDescending(DataFrame(symbols, weights))

\* ------------------------------------------------------------------- state
VARIABLES
    args,        \* the call under way: the function and its arguments
    stack,       \* call stack, innermost frame last: [fn, pc, parameters]
    fi,          \* fetch_historical_returns: index of `for sym in symbols`
    closes,      \* fetch_historical_returns: the dict `closes`
    returns_df,  \* the returns table, once built
    est,         \* (mu, cov), once estimated or as passed in
    out,         \* build_markowitz_portfolio: the dict `out`
    sweep,       \* efficient_frontier: its locals
    solver,      \* the minimize(...) call under way and its result
    ret,         \* what the last callee handed to its caller
    outcome,     \* how the outermost call ended
    memo,        \* answers minimize has given in this run: the same
                 \* problem is answered the same way again
    failures,    \* solves of this run that did not converge
    solves,      \* minimize calls started so far, per kind
    log,         \* what has been printed
    report       \* get_optimal_weights_df on the finished result

vars == <<args, stack, fi, closes, returns_df, est, out, sweep, solver, ret,
          outcome, memo, failures, solves, log, report>>

None == [some |-> FALSE]
Some(v) == [some |-> TRUE, val |-> v]

Frame(fn, n_points, allow_short, risk_free) ==
    [fn |-> fn, pc |-> "start", n_points |-> n_points,
     allow_short |-> allow_short, risk_free |-> risk_free]

Top == stack[Len(stack)]
At(fn, pc) == stack # <<>> /\ Top.fn = fn /\ Top.pc = pc
Goto(pc) == [stack EXCEPT ![Len(stack)].pc = pc]
Call(retpc, frame) == Append(Goto(retpc), frame)
Pop(stk) == SubSeq(stk, 1, Len(stk) - 1)

\* build_markowitz_portfolio with a try block around its first stage only.
HasHandler_first(fr) ==
    fr.fn = "build_markowitz_portfolio" /\ fr.pc = "mv_ret"

\* build_markowitz_portfolio without its try blocks.
HasHandler_none(fr) == FALSE

\* The try blocks of build_markowitz_portfolio (lines 177-206) are the only
\* handlers on the optimisation path.
HasHandler(fr) ==
    fr.fn = "build_markowitz_portfolio" /\ fr.pc \in {"mv_ret", "ms_ret", "ef_ret"}

RECURSIVE Unwind(_)
\* Frames an exception leaves on the stack: it unwinds to the nearest handler.
Unwind(stk) ==
    IF stk = <<>> \/ HasHandler(stk[Len(stk)]) THEN stk ELSE Unwind(Pop(stk))

Error(type, msg, by) == [type |-> type, msg |-> msg, by |-> by]

\* `return v` from the innermost frame.
Return(v) ==
    /\ stack' = Pop(stack)
    /\ ret' = [kind |-> "value", val |-> v]
    /\ outcome' = IF Len(stack) = 1 THEN [status |-> "returned", value |-> v]
                  ELSE outcome

\* `raise e` in the innermost frame.
Raise(e) ==
    /\ stack' = Unwind(Pop(stack))
    /\ ret' = [kind |-> "error", val |-> e]
    /\ outcome' = IF Unwind(Pop(stack)) = <<>> THEN [status |-> "raised", value |-> e]
                  ELSE outcome

IdleSolver == [state |-> "idle"]
NoSweep == [set |-> FALSE]
NoRet == [kind |-> "none"]
Running == [status |-> "running"]

\* ------------------------------------------------------------------ inputs
RECURSIVE Pick(_, _, _)
\* The symbols at the indices S, in list order, each with k candles.
Pick(S, i, k) ==
    IF i > Len(Symbols) THEN <<>>
    ELSE (IF i \in S THEN <<[sym |-> Symbols[i], k |-> k]>> ELSE <<>>)
             \o Pick(S, i + 1, k)

\* args.window is the number of trading days the broker holds in the date
\* range years_back spans: a listed symbol has a candle for each of them.

\* The asset universes a caller of the optimiser estimates (mu, cov) from.
Universes ==
    {Pick(S, 1, k) : S \in (SUBSET (1..Len(Symbols))) \ {{}}, k \in 2..MaxCandles}

FullUniverse == Pick(1..Len(Symbols), 1, MaxCandles)

RiskFreeRates == {0, default_risk_free}

DefaultArgs ==
    [fn |-> "none", symbols |-> <<>>, window |-> MaxCandles, universe |-> <<>>,
     n_points |-> 0, n_points_given |-> FALSE,
     allow_short |-> FALSE, risk_free |-> default_risk_free,
     max_sharpe_only |-> FALSE, weights |-> <<>>]

BuildCalls ==
    {[DefaultArgs EXCEPT !.fn = "build_markowitz_portfolio",
                         !.symbols = Symbols, !.window = d,
                         !.max_sharpe_only = b] :
        d \in 2..MaxCandles, b \in BOOLEAN}

FrontierCalls ==
    {[DefaultArgs EXCEPT !.fn = "efficient_frontier", !.universe = u,
                         !.n_points = n, !.n_points_given = TRUE,
                         !.allow_short = s] :
        u \in Universes, n \in 0..MaxPoints, s \in BOOLEAN}
    \cup {[DefaultArgs EXCEPT !.fn = "efficient_frontier",
                              !.universe = FullUniverse]}

MinVarianceCalls ==
    {[DefaultArgs EXCEPT !.fn = "min_variance_portfolio", !.universe = u] :
        u \in Universes}

MaxSharpeCalls ==
    {[DefaultArgs EXCEPT !.fn = "max_sharpe_portfolio", !.universe = u,
                         !.allow_short = s, !.risk_free = r] :
        u \in Universes, s \in BOOLEAN, r \in RiskFreeRates}

\* Weight vectors handed to the pure functions: every long-only grid vector
\* (normalised or not) and every vector of the long-short simplex.
WeightVectors(n) ==
    [1..n -> 0..One(n)]
        \cup Feasible(Problem("ms", n, 0 - One(n), One(n), 0, 0))

SharpeCalls ==
    {[DefaultArgs EXCEPT !.fn = "portfolio_sharpe", !.universe = u,
                         !.weights = w, !.risk_free = r] :
        u \in Universes, w \in UNION {WeightVectors(n) : n \in 1..Len(Symbols)},
        r \in RiskFreeRates}

WeightsDfCalls ==
    {[DefaultArgs EXCEPT !.fn = "optimal_weights_df",
                         !.symbols = [i \in 1..Len(w) |-> Symbols[i]],
                         !.weights = w] :
        w \in UNION {WeightVectors(n) : n \in 1..Len(Symbols)}}

Calls ==
    BuildCalls \cup FrontierCalls \cup MinVarianceCalls \cup MaxSharpeCalls
        \cup {c \in SharpeCalls : Len(c.weights) = Len(c.universe)}
        \cup WeightsDfCalls

\* efficient_frontier with the orchestrator's 30 as its own default.
BoundNPoints_thirty(a) == IF a.n_points_given THEN a.n_points ELSE build_n_points

\* Line 138: n_points: int = 50 is what a call without n_points runs with.
BoundNPoints(a) == IF a.n_points_given THEN a.n_points ELSE default_n_points

Estimate(universe) ==
    LET e == expected_returns_and_covariance(ReturnsOf(universe))
    IN  [set |-> TRUE, mu |-> e.mu, cov |-> e.cov]

Init ==
    /\ args \in Calls
    /\ stack = <<Frame(args.fn, BoundNPoints(args), args.allow_short, args.risk_free)>>
    /\ fi = 1
    /\ closes = <<>>
    /\ returns_df = None
    /\ est = IF args.universe = <<>> THEN [set |-> FALSE] ELSE Estimate(args.universe)
    /\ out = None
    /\ sweep = NoSweep
    /\ solver = IdleSolver
    /\ ret = NoRet
    /\ outcome = Running
    /\ memo = [mv |-> None, ms |-> None, fr |-> <<>>]
    /\ failures = 0
    /\ solves = [mv |-> 0, ms |-> 0, fr |-> 0]
    /\ log = <<>>
    /\ report = None

\* ------------------------------------------------ build_markowitz_portfolio
\* Lines 160-161: open the session, then fetch.  get_session raises when the
\* broker refuses the login.
BuildStart ==
    /\ At("build_markowitz_portfolio", "start")
    /\ \/ /\ stack' = Call("fetched", Frame("fetch_historical_returns", 0, FALSE, 0))
          /\ UNCHANGED <<ret, outcome>>
       \/ Raise(Error("RuntimeError", "Session failed", "get_session"))
    /\ UNCHANGED <<args, fi, closes, returns_df, est, out, sweep, solver, memo,
                   failures, solves, log, report>>

\* closes[sym] = df["close"] without the length check before it.
KeepCloses_unchecked(cl, sym, k) == Append(cl, [sym |-> sym, k |-> k])

\* Lines 119-121: `continue` on df.empty or len(df) < 2, else
\* closes[sym] = df["close"].
KeepCloses(cl, sym, k) ==
    IF k < 2 THEN cl ELSE Append(cl, [sym |-> sym, k |-> k])

\* Lines 115-124: one pass of `for sym in symbols`.
FetchSymbol ==
    /\ At("fetch_historical_returns", "start")
    /\ fi <= Len(args.symbols)
    /\ fi' = fi + 1
    /\ \/ \* get_symbol_token raises: caught, printed, next symbol
          /\ log' = Append(log, [msg |-> "Skip", about |-> args.symbols[fi]])
          /\ UNCHANGED closes
       \/ \* fetch_candle_data raises: caught, printed, next symbol
          /\ log' = Append(log, [msg |-> "Skip", about |-> args.symbols[fi]])
          /\ UNCHANGED closes
       \/ \* k candles come back
          /\ \E k \in {0, 1, args.window} :
                closes' = KeepCloses(closes, args.symbols[fi], k)
          /\ UNCHANGED log
    /\ UNCHANGED <<args, stack, returns_df, est, out, sweep, solver, ret,
                   outcome, memo, failures, solves, report>>

\* Lines 126-132: after the loop.
FetchFinish ==
    /\ At("fetch_historical_returns", "start")
    /\ fi > Len(args.symbols)
    /\ IF closes = <<>>
       THEN /\ Raise(Error("ValueError", "No historical data fetched for any symbol.",
                           "fetch_historical_returns"))
            /\ UNCHANGED returns_df
       ELSE /\ returns_df' = Some(ReturnsOf(closes))
            /\ Return("returns_df")
    /\ UNCHANGED <<args, fi, closes, est, out, sweep, solver, memo, failures,
                   solves, log, report>>

\* Lines 162-178: symbols_used, the two-symbol check, the estimate, `out`,
\* and the call of min_variance_portfolio inside the first try.
BuildEstimate ==
    /\ At("build_markowitz_portfolio", "fetched")
    /\ LET symbols_used == returns_df.val.columns
           e == expected_returns_and_covariance(returns_df.val)
       IN  IF Len(symbols_used) < 2
           THEN /\ Raise(Error("ValueError", "Need at least 2 symbols",
                               "build_markowitz_portfolio"))
                /\ UNCHANGED <<est, out>>
           ELSE /\ est' = [set |-> TRUE, mu |-> e.mu, cov |-> e.cov]
                /\ out' = Some([returns_df |-> returns_df.val,
                                symbols_used |-> symbols_used,
                                min_variance |-> None,
                                max_sharpe |-> None,
                                efficient_frontier |-> None])
                /\ stack' = Call("mv_ret", Frame("min_variance_portfolio", 0, FALSE, 0))
                /\ UNCHANGED <<ret, outcome>>
    /\ UNCHANGED <<args, fi, closes, returns_df, sweep, solver, memo, failures,
                   solves, log, report>>

\* Lines 179-191: the first try ends, either way the second begins.
BuildAfterMinVariance ==
    /\ At("build_markowitz_portfolio", "mv_ret")
    /\ \/ /\ ret.kind = "value"
          /\ out' = Some([out.val EXCEPT !.min_variance = Some(ret.val)])
          /\ UNCHANGED log
       \/ /\ ret.kind = "error"
          /\ log' = Append(log, [msg |-> "Min variance optimization failed",
                                 about |-> ret.val.msg])
          /\ UNCHANGED out
    /\ stack' = Call("ms_ret", Frame("max_sharpe_portfolio", 0, FALSE, args.risk_free))
    /\ ret' = NoRet
    /\ UNCHANGED <<args, fi, closes, returns_df, est, sweep, solver, outcome,
                   memo, failures, solves, report>>

\* Lines 192-208: the second try ends; without max_sharpe_only the third
\* begins, otherwise `return out`.
BuildAfterMaxSharpe ==
    /\ At("build_markowitz_portfolio", "ms_ret")
    /\ \/ /\ ret.kind = "value"
          /\ out' = Some([out.val EXCEPT !.max_sharpe = Some(ret.val)])
          /\ UNCHANGED log
       \/ /\ ret.kind = "error"
          /\ log' = Append(log, [msg |-> "Max Sharpe optimization failed",
                                 about |-> ret.val.msg])
          /\ UNCHANGED out
    /\ IF ~args.max_sharpe_only
       THEN /\ stack' = Call("ef_ret", Frame("efficient_frontier", build_n_points, FALSE, 0))
            /\ ret' = NoRet
            /\ UNCHANGED outcome
       ELSE /\ stack' = Pop(stack)
            /\ ret' = [kind |-> "value", val |-> out'.val]
            /\ outcome' = [status |-> "returned", value |-> out'.val]
    /\ UNCHANGED <<args, fi, closes, returns_df, est, sweep, solver, memo,
                   failures, solves, report>>

\* Lines 204-208: the third try ends, `return out`.
BuildAfterFrontier ==
    /\ At("build_markowitz_portfolio", "ef_ret")
    /\ \/ /\ ret.kind = "value"
          /\ out' = Some([out.val EXCEPT !.efficient_frontier = Some(ret.val)])
          /\ UNCHANGED log
       \/ /\ ret.kind = "error"
          /\ log' = Append(log, [msg |-> "Efficient frontier failed",
                                 about |-> ret.val.msg])
          /\ UNCHANGED out
    /\ stack' = Pop(stack)
    /\ ret' = [kind |-> "value", val |-> out'.val]
    /\ outcome' = [status |-> "returned", value |-> out'.val]
    /\ UNCHANGED <<args, fi, closes, returns_df, est, sweep, solver, memo,
                   failures, solves, report>>

\* ---------------------------------------------------------------- minimize
\* A minimize(...) call begins: SLSQP from x0 under the given bounds and
\* constraints.
StartSolve(p) ==
    /\ solver' = [state |-> "running", p |-> p, it |-> 0]
    /\ solves' = [solves EXCEPT ![p.kind] = @ + 1]
    /\ stack' = Goto("solving")

\* The answer this run has already had for the problem, if any.
Memoised(p) ==
    IF p.kind = "mv" /\ memo.mv.some THEN Some(memo.mv.val.result)
    ELSE IF p.kind = "fr" /\ p.target \in DOMAIN memo.fr THEN Some(memo.fr[p.target])
    ELSE None

Remember(p, r) ==
    IF p.kind = "mv" THEN [memo EXCEPT !.mv = Some([p |-> p, result |-> r])]
    ELSE IF p.kind = "ms" THEN [memo EXCEPT !.ms = Some([p |-> p, result |-> r])]
    ELSE [memo EXCEPT !.fr = (p.target :> r) @@ memo.fr]

\* One SLSQP iteration that neither converges nor gives up.
SolverIterate ==
    /\ solver.state = "running"
    /\ solver.it < MaxIter
    /\ solver' = [solver EXCEPT !.it = @ + 1]
    /\ UNCHANGED <<args, stack, fi, closes, returns_df, est, out, sweep, ret,
                   outcome, memo, failures, solves, log, report>>

\* minimize returns: result.success and result.x are set.  The iteration
\* that reaches the cap without converging ends the solve as a failure.
SolverFinish ==
    /\ solver.state = "running"
    /\ solver.it >= 1
    /\ \E r \in (IF Memoised(solver.p).some THEN {Memoised(solver.p).val}
                 ELSE Outcomes(solver.p, est.mu, est.cov, failures < MaxFailures)) :
          /\ solver' = [state |-> "done", p |-> solver.p, it |-> solver.it, result |-> r]
          /\ memo' = Remember(solver.p, r)
          /\ failures' = IF r.success \/ Memoised(solver.p).some THEN failures
                         ELSE failures + 1
    /\ stack' = Goto("solved")
    /\ UNCHANGED <<args, fi, closes, returns_df, est, out, sweep, ret, outcome,
                   solves, log, report>>

\* ---------------------------------------------------- min_variance_portfolio
\* Lines 68-81: n, bounds, constraints, the minimize call.
MinVarianceSolve ==
    /\ At("min_variance_portfolio", "start")
    /\ StartSolve(Problem("mv", Len(est.mu), 0, One(Len(est.mu)), 0, 0))
    /\ UNCHANGED <<args, fi, closes, returns_df, est, out, sweep, ret, outcome,
                   memo, failures, log, report>>

\* min_variance_portfolio answering a failed solve with the equal-weight
\* portfolio instead of raising.
MinVarianceResult_fallback(result, mu, cov) ==
    LET w == IF result.success THEN result.x ELSE EqualWeights(Len(mu))
    IN  [raise |-> FALSE,
         val |-> [weights |-> w,
                  expected_return |-> portfolio_return(w, mu),
                  volatility |-> portfolio_volatility(w, cov)]]

\* min_variance_portfolio without its `if not result.success` check.
MinVarianceResult_unchecked(result, mu, cov) ==
    [raise |-> FALSE,
     val |-> [weights |-> result.x,
              expected_return |-> portfolio_return(result.x, mu),
              volatility |-> portfolio_volatility(result.x, cov)]]

\* Lines 82-85.
MinVarianceResult(result, mu, cov) ==
    IF ~result.success
    THEN [raise |-> TRUE,
          val |-> Error("ValueError", "Min variance optimization failed",
                        "min_variance_portfolio")]
    ELSE [raise |-> FALSE,
          val |-> [weights |-> result.x,
                   expected_return |-> portfolio_return(result.x, mu),
                   volatility |-> portfolio_volatility(result.x, cov)]]

MinVarianceFinish ==
    /\ At("min_variance_portfolio", "solved")
    /\ LET r == MinVarianceResult(solver.result, est.mu, est.cov)
       IN  IF r.raise THEN Raise(r.val) ELSE Return(r.val)
    /\ solver' = IdleSolver
    /\ UNCHANGED <<args, fi, closes, returns_df, est, out, sweep, memo,
                   failures, solves, log, report>>

\* ------------------------------------------------------ max_sharpe_portfolio
\* Lines 110-113.
MaxSharpeBounds(n, allow_short) ==
    IF allow_short THEN [lo |-> 0 - One(n), hi |-> One(n)]
    ELSE [lo |-> 0, hi |-> One(n)]

\* Lines 109-125.
MaxSharpeSolve ==
    /\ At("max_sharpe_portfolio", "start")
    /\ LET n == Len(est.mu)
           b == MaxSharpeBounds(n, Top.allow_short)
       IN  StartSolve(Problem("ms", n, b.lo, b.hi, 0, Top.risk_free))
    /\ UNCHANGED <<args, fi, closes, returns_df, est, out, sweep, ret, outcome,
                   memo, failures, log, report>>

\* Lines 126-132.
MaxSharpeResult(result, mu, cov, risk_free) ==
    IF ~result.success
    THEN [raise |-> TRUE,
          val |-> Error("ValueError", "Max Sharpe optimization failed",
                        "max_sharpe_portfolio")]
    ELSE [raise |-> FALSE,
          val |-> [weights |-> result.x,
                   expected_return |-> portfolio_return(result.x, mu),
                   volatility |-> portfolio_volatility(result.x, cov),
                   sharpe_ratio |-> portfolio_sharpe(result.x, mu, cov, risk_free)]]

MaxSharpeFinish ==
    /\ At("max_sharpe_portfolio", "solved")
    /\ LET r == MaxSharpeResult(solver.result, est.mu, est.cov, Top.risk_free)
       IN  IF r.raise THEN Raise(r.val) ELSE Return(r.val)
    /\ solver' = IdleSolver
    /\ UNCHANGED <<args, fi, closes, returns_df, est, out, sweep, memo,
                   failures, solves, log, report>>

\* -------------------------------------------------------- efficient_frontier
Max(a, b) == IF a >= b THEN a ELSE b

\* mu[0] taken for the largest expected return.
MaxOf_first(mu) == mu[1]

RECURSIVE MaxOf(_)
\* np.max(mu)
MaxOf(mu) == IF Len(mu) = 1 THEN mu[1] ELSE Max(Head(mu), MaxOf(Tail(mu)))

\* A grid of n + 1 values where n were asked for.
Linspace_extra(a, b, n) ==
    [i \in 1..(n + 1) |-> IF n = 1 THEN a ELSE a + ((i - 1) * (b - a)) \div (n - 1)]

\* np.linspace(a, b, n): n evenly spaced values from a to b inclusive.
Linspace(a, b, n) ==
    [i \in 1..n |-> IF n = 1 THEN a ELSE a + ((i - 1) * (b - a)) \div (n - 1)]

\* Lines 153-156.
FrontierBounds(n, allow_short) ==
    IF allow_short THEN [lo |-> 0 - One(n), hi |-> One(n)]
    ELSE [lo |-> 0, hi |-> One(n)]

\* Line 148: the long-only minimum-variance solve that anchors the grid.
FrontierStart ==
    /\ At("efficient_frontier", "start")
    /\ stack' = Call("min_ret", Frame("min_variance_portfolio", 0, FALSE, 0))
    /\ UNCHANGED <<args, fi, closes, returns_df, est, out, sweep, solver, ret,
                   outcome, memo, failures, solves, log, report>>

\* Lines 148-159: min_ret, max_ret, the grid, the bounds, the empty lists.
\* max(mu) is brought to the unit of a portfolio return.
FrontierGrid ==
    /\ At("efficient_frontier", "min_ret")
    /\ ret.kind = "value"
    /\ LET n == Len(est.mu)
           min_ret == ret.val.expected_return
           max_ret == MaxOf(est.mu) * One(n)
           b == FrontierBounds(n, Top.allow_short)
       IN  sweep' = [set |-> TRUE,
                     target_returns |-> Linspace(min_ret, max_ret, Top.n_points),
                     lo |-> b.lo, hi |-> b.hi, i |-> 1,
                     volatilities |-> <<>>, returns_list |-> <<>>]
    /\ stack' = Goto("loop")
    /\ ret' = NoRet
    /\ UNCHANGED <<args, fi, closes, returns_df, est, out, solver, outcome,
                   memo, failures, solves, log, report>>

\* A constraint closure that reads the first target whatever the pass.
FrontierTarget_first(sw) == sw.target_returns[1]

\* Line 161 and the t=target of line 164: the target of the pass under way.
FrontierTarget(sw) == sw.target_returns[sw.i]

\* Lines 161-172: one pass of `for target in target_returns` begins.
FrontierPointSolve ==
    /\ At("efficient_frontier", "loop")
    /\ sweep.i <= Len(sweep.target_returns)
    /\ StartSolve(Problem("fr", Len(est.mu), sweep.lo, sweep.hi,
                          FrontierTarget(sweep), 0))
    /\ UNCHANGED <<args, fi, closes, returns_df, est, out, sweep, ret, outcome,
                   memo, failures, log, report>>

\* The loop body with `continue` in place of the two NaN appends.
FrontierAppend_skip(sw, result, mu, cov) ==
    IF result.success
    THEN [sw EXCEPT !.volatilities = Append(@, portfolio_volatility(result.x, cov)),
                    !.returns_list = Append(@, Num(portfolio_return(result.x, mu))),
                    !.i = @ + 1]
    ELSE [sw EXCEPT !.i = @ + 1]

\* Lines 173-180: what the pass appends to the two lists.
FrontierAppend(sw, result, mu, cov) ==
    IF result.success
    THEN [sw EXCEPT !.volatilities = Append(@, portfolio_volatility(result.x, cov)),
                    !.returns_list = Append(@, Num(portfolio_return(result.x, mu))),
                    !.i = @ + 1]
    ELSE [sw EXCEPT !.volatilities = Append(@, NaN),
                    !.returns_list = Append(@, NaN),
                    !.i = @ + 1]

FrontierPointFinish ==
    /\ At("efficient_frontier", "solved")
    /\ sweep' = FrontierAppend(sweep, solver.result, est.mu, est.cov)
    /\ solver' = IdleSolver
    /\ stack' = Goto("loop")
    /\ UNCHANGED <<args, fi, closes, returns_df, est, out, ret, outcome, memo,
                   failures, solves, log, report>>

\* Line 182.
FrontierReturn ==
    /\ At("efficient_frontier", "loop")
    /\ sweep.i > Len(sweep.target_returns)
    /\ Return([volatilities |-> sweep.volatilities, returns |-> sweep.returns_list])
    /\ UNCHANGED <<args, fi, closes, returns_df, est, out, sweep, solver, memo,
                   failures, solves, log, report>>

\* ------------------------------------------------------- the pure functions
PortfolioSharpeCall ==
    /\ At("portfolio_sharpe", "start")
    /\ Return(portfolio_sharpe(args.weights, est.mu, est.cov, args.risk_free))
    /\ UNCHANGED <<args, fi, closes, returns_df, est, out, sweep, solver, memo,
                   failures, solves, log, report>>

OptimalWeightsDfCall ==
    /\ At("optimal_weights_df", "start")
    /\ Return(optimal_weights_df(args.symbols, args.weights))
    /\ UNCHANGED <<args, fi, closes, returns_df, est, out, sweep, solver, memo,
                   failures, solves, log, report>>

Strategies == {"max_sharpe", "min_variance", "equal_weight"}

\* Lines 217-223 of markowitz_portfolio_angleone.py.
get_optimal_weights_df(result, strategy) ==
    IF strategy = "max_sharpe" /\ result.max_sharpe.some
    THEN [raise |-> FALSE, strategy |-> strategy,
          rows |-> optimal_weights_df(result.symbols_used,
                                      result.max_sharpe.val.weights)]
    ELSE IF strategy = "min_variance" /\ result.min_variance.some
    THEN [raise |-> FALSE, strategy |-> strategy,
          rows |-> optimal_weights_df(result.symbols_used,
                                      result.min_variance.val.weights)]
    ELSE [raise |-> TRUE, strategy |-> strategy, rows |-> <<>>]

\* The caller of build_markowitz_portfolio asks for a weight table.
GetOptimalWeightsDf ==
    /\ args.fn = "build_markowitz_portfolio"
    /\ outcome.status = "returned"
    /\ ~report.some
    /\ \E strategy \in Strategies :
          report' = Some(get_optimal_weights_df(outcome.value, strategy))
    /\ UNCHANGED <<args, stack, fi, closes, returns_df, est, out, sweep, solver,
                   ret, outcome, memo, failures, solves, log>>

\* ---------------------------------------------------------- specification
Next ==
    \/ BuildStart
    \/ FetchSymbol
    \/ FetchFinish
    \/ BuildEstimate
    \/ BuildAfterMinVariance
    \/ BuildAfterMaxSharpe
    \/ BuildAfterFrontier
    \/ SolverIterate
    \/ SolverFinish
    \/ MinVarianceSolve
    \/ MinVarianceFinish
    \/ MaxSharpeSolve
    \/ MaxSharpeFinish
    \/ FrontierStart
    \/ FrontierGrid
    \/ FrontierPointSolve
    \/ FrontierPointFinish
    \/ FrontierReturn
    \/ PortfolioSharpeCall
    \/ OptimalWeightsDfCall
    \/ GetOptimalWeightsDf

Spec == Init /\ [][Next]_vars

\* ================================================================== claims
Finished == outcome.status # "running"
Returned == outcome.status = "returned"
Raised == outcome.status = "raised"

\* The number of grid points the efficient_frontier call of this run was
\* asked for.
RequestedPoints ==
    IF args.fn = "efficient_frontier" THEN BoundNPoints(args) ELSE build_n_points

\* The efficient_frontier call laid its grid and is no longer on the stack.
FrontierLeft ==
    sweep.set /\ \A k \in 1..Len(stack) : stack[k].fn # "efficient_frontier"

\* What the solve for grid index j answered, as a (volatility, return) pair.
SolvedEntry(j) ==
    LET r == memo.fr[sweep.target_returns[j]]
    IN  IF r.success
        THEN <<portfolio_volatility(r.x, est.cov), Num(portfolio_return(r.x, est.mu))>>
        ELSE <<NaN, NaN>>

FrontierValue == [volatilities |-> sweep.volatilities, returns |-> sweep.returns_list]

\* The entries looked at in a state: the one appended last while the sweep
\* runs (every entry is the last one once), all of them when it has ended.
LatestEntries ==
    IF FrontierLeft THEN 1..Len(sweep.volatilities)
    ELSE {Len(sweep.volatilities)} \ {0}

\* C1: whatever subset of the grid-point solves fails, the sweep visits every
\* grid point in order, both lists grow in step with the loop index, entry j
\* is the (volatility, return) of the solve for target j when it converged
\* and NaN in both lists when it did not, and once the grid is laid the call
\* can only end by returning two lists of exactly n_points entries.
C1_SweepKeepsEveryPoint ==
    sweep.set =>
        /\ Len(sweep.target_returns) = RequestedPoints
        /\ Len(sweep.volatilities) = sweep.i - 1
        /\ Len(sweep.returns_list) = sweep.i - 1
        /\ \A j \in LatestEntries :
              <<sweep.volatilities[j], sweep.returns_list[j]>> = SolvedEntry(j)
        /\ FrontierLeft =>
              /\ Len(sweep.volatilities) = RequestedPoints
              /\ Len(sweep.returns_list) = RequestedPoints
              /\ args.fn = "efficient_frontier" =>
                    Returned /\ outcome.value = FrontierValue
              /\ args.fn = "build_markowitz_portfolio" =>
                    \/ At("build_markowitz_portfolio", "ef_ret")
                          /\ ret = [kind |-> "value", val |-> FrontierValue]
                    \/ Returned /\ out.val.efficient_frontier = Some(FrontierValue)

\* A finished sweep with a NaN entry followed by a defined one.
C1_Witness ==
    /\ FrontierLeft
    /\ \E j, k \in 1..Len(sweep.volatilities) :
          /\ j < k
          /\ ~memo.fr[sweep.target_returns[j]].success
          /\ sweep.returns_list[j] = NaN
          /\ sweep.volatilities[j] = NaN
          /\ IsNum(sweep.returns_list[k])

MvFailed == memo.mv.some /\ ~memo.mv.val.result.success
MsFailed == memo.ms.some /\ ~memo.ms.val.result.success
Logged(m) == \E i \in 1..Len(log) : log[i].msg = m

\* C2 as stated: when the primary min-variance or max-Sharpe solve does not
\* converge, the call that asked for the portfolio (min_variance_portfolio,
\* max_sharpe_portfolio, build_markowitz_portfolio) ends in an error.
C2_FailureEndsInError ==
    (/\ args.fn \in {"min_variance_portfolio", "max_sharpe_portfolio",
                     "build_markowitz_portfolio"}
     /\ Finished
     /\ MvFailed \/ MsFailed) => Raised

\* C2 as amended: min_variance_portfolio and max_sharpe_portfolio raise
\* ValueError when their solve does not converge; build_markowitz_portfolio
\* catches that error, prints it, and returns a result whose entry for the
\* failed portfolio is None.
C2_FailureRaisedThenCaught ==
    /\ (args.fn = "min_variance_portfolio" /\ Finished /\ MvFailed) =>
          /\ Raised
          /\ outcome.value.type = "ValueError"
          /\ outcome.value.by = "min_variance_portfolio"
    /\ (args.fn = "max_sharpe_portfolio" /\ Finished /\ MsFailed) =>
          /\ Raised
          /\ outcome.value.type = "ValueError"
          /\ outcome.value.by = "max_sharpe_portfolio"
    /\ (args.fn = "build_markowitz_portfolio" /\ Finished /\ (MvFailed \/ MsFailed)) =>
          /\ Returned
          /\ MvFailed => /\ outcome.value.min_variance = None
                         /\ Logged("Min variance optimization failed")
          /\ MsFailed => /\ outcome.value.max_sharpe = None
                         /\ Logged("Max Sharpe optimization failed")

\* The orchestrated run has returned although its min-variance solve failed.
C2_Witness ==
    /\ args.fn = "build_markowitz_portfolio"
    /\ Returned
    /\ MvFailed
    /\ outcome.value.max_sharpe.some

LongOnly(w) ==
    /\ \A i \in 1..Len(w) : w[i] >= 0 /\ w[i] <= One(Len(w))
    /\ SumSeq(w) = One(Len(w))

\* w is result.x of a solve that reported success and was given the bounds
\* (0, 1) on every asset.
FromConvergedLongOnly(m, w) ==
    /\ m.some
    /\ m.val.result.success
    /\ m.val.result.x = w
    /\ m.val.p.lo = 0
    /\ m.val.p.hi = One(m.val.p.n)
    /\ m.val.p.n = Len(w)

\* C3: every weight vector a long-only solve hands to its caller
\* (min_variance_portfolio always, max_sharpe_portfolio with
\* allow_short=False) has every weight in [0, 1] and sums to 1, and is the
\* result.x of a solve that had the bounds (0, 1) and reported success.
C3_LongOnlyWeights ==
    /\ (args.fn = "min_variance_portfolio" /\ Returned) =>
          /\ LongOnly(outcome.value.weights)
          /\ FromConvergedLongOnly(memo.mv, outcome.value.weights)
    /\ (args.fn = "max_sharpe_portfolio" /\ ~args.allow_short /\ Returned) =>
          /\ LongOnly(outcome.value.weights)
          /\ FromConvergedLongOnly(memo.ms, outcome.value.weights)
    /\ (out.some /\ out.val.min_variance.some) =>
          /\ LongOnly(out.val.min_variance.val.weights)
          /\ FromConvergedLongOnly(memo.mv, out.val.min_variance.val.weights)
    /\ (out.some /\ out.val.max_sharpe.some) =>
          /\ LongOnly(out.val.max_sharpe.val.weights)
          /\ FromConvergedLongOnly(memo.ms, out.val.max_sharpe.val.weights)
    /\ (At("efficient_frontier", "min_ret") /\ ret.kind = "value") =>
          /\ LongOnly(ret.val.weights)
          /\ FromConvergedLongOnly(memo.mv, ret.val.weights)

\* The orchestrated run holds max-Sharpe weights that the solver moved off
\* the initial guess, while its min-variance solve failed and left nothing.
C3_Witness ==
    /\ out.some
    /\ out.val.max_sharpe.some
    /\ out.val.max_sharpe.val.weights # EqualWeights(Len(est.mu))
    /\ MvFailed
    /\ ~out.val.min_variance.some
    /\ Finished

\* w' * Cov * w of the portfolio_sharpe call of this run.
SharpeQuad ==
    Dot(args.weights, [i \in 1..Len(args.weights) |-> Dot(est.cov.m[i], args.weights)])

\* (portfolio return - risk_free) of the portfolio_sharpe call of this run.
SharpeExcess ==
    Dot(args.weights, est.mu) - args.risk_free * One(Len(args.weights))

\* C4: portfolio_sharpe returns exactly 0 whenever the portfolio volatility is
\* <= 0 (a square root is never negative, so: whenever w' Cov w = 0), for any
\* weights, mu and risk-free rate; otherwise it returns
\* (return - risk_free) / volatility (to 1/100, NaN where the volatility is
\* NaN); it never yields an infinite value.
C4_SharpeDegenerate ==
    (args.fn = "portfolio_sharpe" /\ Returned) =>
        /\ outcome.value.k \notin {"inf", "-inf"}
        /\ est.cov.nan => outcome.value = NaN
        /\ (~est.cov.nan /\ SharpeQuad = 0) => outcome.value = Num(0)
        /\ (~est.cov.nan /\ SharpeQuad < 0) => outcome.value = NaN
        /\ (~est.cov.nan /\ SharpeQuad > 0) =>
              /\ outcome.value.k = "num"
              /\ outcome.value.v * ISqrt(SharpeQuad) <= 100 * SharpeExcess
              /\ 100 * SharpeExcess < (outcome.value.v + 1) * ISqrt(SharpeQuad)

\* portfolio_sharpe has returned for a portfolio that holds something, has
\* zero volatility and a non-zero excess return.
C4_Witness ==
    /\ args.fn = "portfolio_sharpe"
    /\ Returned
    /\ ~est.cov.nan
    /\ SharpeQuad = 0
    /\ SharpeExcess # 0
    /\ \E i \in 1..Len(args.weights) : args.weights[i] # 0
    /\ outcome.value = Num(0)

\* ------------------------------------------------------------- termination
\* Steps one minimize call can still take from its start: the call, at most
\* MaxIter iterations, its return, and the caller's handling of the result.
SolveSteps == MaxIter + 3

SolvingLeft == (MaxIter - solver.it) + 2

\* Steps left in `for target in target_returns` from index i, and the return.
SweepLeft(n, i) == (n - i + 1) * SolveSteps + 1

FrontierSteps(n) == SolveSteps + 2 + SweepLeft(n, 1)

\* Steps a frame can still take from its pc, its future callees included.
FrameLeft(fr) ==
    CASE fr.fn \in {"min_variance_portfolio", "max_sharpe_portfolio"} ->
            (CASE fr.pc = "start" -> SolveSteps
               [] fr.pc = "solving" -> SolvingLeft
               [] OTHER -> 1)
      [] fr.fn = "efficient_frontier" ->
            (CASE fr.pc = "start" -> FrontierSteps(fr.n_points)
               [] fr.pc = "min_ret" -> 1 + SweepLeft(fr.n_points, 1)
               [] fr.pc = "loop" -> SweepLeft(fr.n_points, sweep.i)
               [] fr.pc = "solving" -> SolvingLeft + SweepLeft(fr.n_points, sweep.i + 1)
               [] OTHER -> 1 + SweepLeft(fr.n_points, sweep.i + 1))
      [] fr.fn = "fetch_historical_returns" -> (Len(args.symbols) - fi + 1) + 1
      [] fr.fn = "build_markowitz_portfolio" ->
            (CASE fr.pc = "start" ->
                    Len(args.symbols) + 6 + 2 * SolveSteps + FrontierSteps(build_n_points)
               [] fr.pc = "fetched" -> 4 + 2 * SolveSteps + FrontierSteps(build_n_points)
               [] fr.pc = "mv_ret" -> 3 + SolveSteps + FrontierSteps(build_n_points)
               [] fr.pc = "ms_ret" -> 2 + FrontierSteps(build_n_points)
               [] OTHER -> 1)
      [] OTHER -> 1

StepsLeft ==
    SumSeq([k \in 1..Len(stack) |-> FrameLeft(stack[k])])
        + (IF args.fn = "build_markowitz_portfolio" /\ ~Raised /\ ~report.some
           THEN 1 ELSE 0)

SolvesStarted == solves.mv + solves.ms + solves.fr

\* The run stands at a statement: the innermost frame is at a position that
\* has a step, a solve under way can iterate or end, or the caller of the
\* orchestrator has its result and has yet to ask for the weights table.
Steppable ==
    \/ /\ stack # <<>>
       /\ <<Top.fn, Top.pc>> \in
             {<<"build_markowitz_portfolio", "start">>,
              <<"build_markowitz_portfolio", "fetched">>,
              <<"build_markowitz_portfolio", "mv_ret">>,
              <<"build_markowitz_portfolio", "ms_ret">>,
              <<"build_markowitz_portfolio", "ef_ret">>,
              <<"fetch_historical_returns", "start">>,
              <<"min_variance_portfolio", "start">>,
              <<"min_variance_portfolio", "solved">>,
              <<"max_sharpe_portfolio", "start">>,
              <<"max_sharpe_portfolio", "solved">>,
              <<"efficient_frontier", "start">>,
              <<"efficient_frontier", "min_ret">>,
              <<"efficient_frontier", "loop">>,
              <<"efficient_frontier", "solved">>,
              <<"portfolio_sharpe", "start">>,
              <<"optimal_weights_df", "start">>}
    \/ /\ stack # <<>>
       /\ Top.pc = "solving"
       /\ solver.state = "running"
       /\ solver.it < MaxIter \/ solver.it >= 1
    \/ /\ stack = <<>>
       /\ args.fn = "build_markowitz_portfolio"
       /\ Returned
       /\ ~report.some

\* C5: every solve runs under a bounded iteration count, so every call of
\* min_variance_portfolio, max_sharpe_portfolio and efficient_frontier ends,
\* with a result or a reported failure, for every input (the singular and
\* the NaN covariance included): each step lowers a non-negative bound on the
\* steps left, a run with steps left stands at a statement that can be taken,
\* and a run with none has ended; the frontier sweep makes at most n_points + 1 solves, and exactly
\* that many when it returns.
C5_EveryCallEnds ==
    /\ [][StepsLeft' < StepsLeft]_vars
    /\ [](/\ StepsLeft >= 0
          /\ StepsLeft > 0 <=> Steppable
          /\ StepsLeft = 0 => Finished
          /\ stack = <<>> => Finished
          /\ solver.state # "idle" => solver.it <= MaxIter
          /\ args.fn = "efficient_frontier" =>
                /\ SolvesStarted <= RequestedPoints + 1
                /\ Returned => SolvesStarted = RequestedPoints + 1
          /\ args.fn \in {"min_variance_portfolio", "max_sharpe_portfolio"} =>
                /\ SolvesStarted <= 1
                /\ Finished => SolvesStarted = 1)

\* An efficient_frontier call over a singular covariance has returned after
\* a solve that ran into the iteration cap without converging.
C5_Witness ==
    /\ args.fn = "efficient_frontier"
    /\ Returned
    /\ RequestedPoints >= 2
    /\ Len(est.mu) >= 2
    /\ ~est.cov.nan
    /\ est.cov.m[1][1] * est.cov.m[2][2] = est.cov.m[1][2] * est.cov.m[2][1]
    /\ failures > 0

\* ------------------------------------------------------ C6, C7, C8, C9, C10
Insufficient ==
    returns_df.some
        /\ (Len(returns_df.val.columns) < 2 \/ Len(returns_df.val.rows) < 2)

\* C6 as stated (without the part on who raises): when fewer than 2 assets
\* or fewer than 2 observations remain after alignment the run ends in an
\* error and no optimizer solve is ever started; in every run (mu, cov) is
\* estimated before the first solve starts.
C6_InsufficientDataStopsRun ==
    /\ (args.fn = "build_markowitz_portfolio" /\ Insufficient) =>
          /\ SolvesStarted = 0
          /\ Finished => Raised
    /\ SolvesStarted > 0 => est.set

\* What the sweep would hold at index j were that point solved on its own:
\* the problem is rebuilt from mu, cov, the bounds and target j alone.
IndependentEntry(j) ==
    LET p == Problem("fr", Len(est.mu), sweep.lo, sweep.hi, sweep.target_returns[j], 0)
        x == Converged(p, est.mu, est.cov)
    IN  IF memo.fr[sweep.target_returns[j]].success
        THEN <<portfolio_volatility(x, est.cov), Num(portfolio_return(x, est.mu))>>
        ELSE <<NaN, NaN>>

C8_DefaultIsThirty ==
    /\ (args.fn = "efficient_frontier" /\ ~args.n_points_given /\ Returned) =>
          Len(outcome.value.volatilities) = 30
    /\ (args.fn = "build_markowitz_portfolio" /\ Returned
            /\ outcome.value.efficient_frontier.some) =>
          Len(outcome.value.efficient_frontier.val.volatilities) = 30

\* C8 as amended: efficient_frontier called without n_points uses its own
\* default of 50 grid points and returns arrays of length 50; the
\* orchestrated run passes n_points=30 and produces a 30-point frontier.
C8_DefaultIsFifty ==
    /\ (args.fn = "efficient_frontier" /\ ~args.n_points_given /\ Returned) =>
          /\ Len(outcome.value.volatilities) = 50
          /\ Len(outcome.value.returns) = 50
    /\ (args.fn = "build_markowitz_portfolio" /\ Returned
            /\ outcome.value.efficient_frontier.some) =>
          /\ Len(outcome.value.efficient_frontier.val.volatilities) = 30
          /\ Len(outcome.value.efficient_frontier.val.returns) = 30

\* efficient_frontier, called without n_points, has returned.
C8_Witness ==
    /\ args.fn = "efficient_frontier"
    /\ ~args.n_points_given
    /\ Returned
    /\ Len(outcome.value.volatilities) = 50

NonIncreasing(rows) ==
    \A i \in 1..(Len(rows) - 1) : rows[i].weight >= rows[i + 1].weight

\* rows holds each (symbols[i], weights[i]) pair as often as the input does,
\* and nothing else.
SamePairs(rows, symbols, weights) ==
    /\ Len(rows) = Len(symbols)
    /\ \A i \in 1..Len(symbols) :
          Cardinality({k \in 1..Len(rows) :
                          rows[k] = [symbol |-> symbols[i], weight |-> weights[i]]})
              = Cardinality({k \in 1..Len(symbols) :
                                symbols[k] = symbols[i] /\ weights[k] = weights[i]})

\* C9: for symbol list and weight vector of equal length, optimal_weights_df
\* returns rows in non-increasing weight order that are a permutation of the
\* input (symbol[i], weight[i]) pairs; so does get_optimal_weights_df for the
\* strategy it reports.
C9_SortedPermutation ==
    /\ (args.fn = "optimal_weights_df" /\ Returned) =>
          /\ NonIncreasing(outcome.value)
          /\ SamePairs(outcome.value, args.symbols, args.weights)
    /\ (report.some /\ ~report.val.raise) =>
          /\ NonIncreasing(report.val.rows)
          /\ SamePairs(report.val.rows, outcome.value.symbols_used,
                       outcome.value[report.val.strategy].val.weights)

\* optimal_weights_df has returned three rows for weights that came in
\* ascending and with a tie.
C9_Witness ==
    /\ args.fn = "optimal_weights_df"
    /\ Returned
    /\ Len(args.weights) = 3
    /\ args.weights[1] < args.weights[2]
    /\ args.weights[2] = args.weights[3]
    /\ outcome.value[1].symbol = args.symbols[2]

\* C10 as stated: with max_sharpe_only=True only the max-Sharpe weights are
\* computed, no min-variance solve and no frontier sweep is run and both
\* entries of the result are None; with max_sharpe_only=False the
\* min-variance portfolio is computed too.
C10_MaxSharpeOnly ==
    (args.fn = "build_markowitz_portfolio" /\ Returned) =>
        /\ args.max_sharpe_only =>
              /\ solves.mv = 0
              /\ solves.fr = 0
              /\ outcome.value.min_variance = None
              /\ outcome.value.efficient_frontier = None
        /\ ~args.max_sharpe_only => solves.mv >= 1

\* ----------------------------------------------------------- C11
\* v, a portfolio return, lies between min(mu) and max(mu) inclusive (mu is
\* brought to the unit of a portfolio return).
WithinMu(v, mu) ==
    /\ \E i \in 1..Len(mu) : mu[i] * One(Len(mu)) <= v
    /\ \E j \in 1..Len(mu) : v <= mu[j] * One(Len(mu))

\* C11: the return w.mu of every weight vector min_variance_portfolio hands
\* to its caller lies between min(mu) and max(mu) inclusive; so in
\* efficient_frontier the grid starts at the min-variance return, never
\* descends, ends (for 2 or more points) at max(mu), and every target of the
\* grid lies in [min(mu), max(mu)].
C11_ReturnWithinMu ==
    /\ (args.fn = "min_variance_portfolio" /\ Returned) =>
          /\ outcome.value.expected_return = Dot(outcome.value.weights, est.mu)
          /\ WithinMu(outcome.value.expected_return, est.mu)
    /\ (out.some /\ out.val.min_variance.some) =>
          WithinMu(out.val.min_variance.val.expected_return, est.mu)
    /\ (At("efficient_frontier", "min_ret") /\ ret.kind = "value") =>
          WithinMu(ret.val.expected_return, est.mu)
    /\ sweep.set =>
          LET t == sweep.target_returns
              m == Len(sweep.target_returns)
          IN  /\ \A j \in 1..m : WithinMu(t[j], est.mu)
              /\ \A j \in 1..(m - 1) : t[j] <= t[j + 1]
              /\ m >= 1 => t[1] = Dot(memo.mv.val.result.x, est.mu)
              /\ m >= 2 => \A i \in 1..Len(est.mu) :
                              est.mu[i] * One(Len(est.mu)) <= t[m]

\* A grid of 2 or more targets that rises from a min-variance return lying
\* strictly inside the range of mu.
C11_Witness ==
    /\ sweep.set
    /\ Len(sweep.target_returns) >= 2
    /\ sweep.target_returns[1] < sweep.target_returns[Len(sweep.target_returns)]
    /\ \E i \in 1..Len(est.mu) :
          est.mu[i] * One(Len(est.mu)) < sweep.target_returns[1]

\* ----------------------------------------------------------- C12
\* The symbols fetch_historical_returns has kept so far, in dict order.
KeptSymbols == [i \in 1..Len(closes) |-> closes[i].sym]

PositionOf(sym) == CHOOSE j \in 1..Len(args.symbols) : args.symbols[j] = sym

\* fetch_historical_returns has gone through every requested symbol and is
\* no longer on the stack.
FetchLeft ==
    /\ args.fn = "build_markowitz_portfolio"
    /\ fi > Len(args.symbols)
    /\ \A k \in 1..Len(stack) : stack[k].fn # "fetch_historical_returns"

FetchRaised ==
    /\ Raised
    /\ outcome.value.by = "fetch_historical_returns"

\* C12: in fetch_historical_returns a symbol whose token lookup or candle
\* fetch raises, or that has fewer than 2 candles, is skipped and the loop
\* goes on with the next symbol (a pass of the loop never ends the call and
\* keeps its symbol only with 2 or more candles, a printed skip keeps
\* nothing); the function raises ValueError exactly when no symbol was kept,
\* and otherwise the columns of the table it returns are exactly the kept
\* symbols, a subset of the requested ones in their order.
C12_FetchSkipsAndKeeps ==
    /\ [][fi' # fi =>
            /\ fi' = fi + 1
            /\ stack' = stack
            /\ outcome' = outcome
            /\ \/ closes' = closes
               \/ \E k \in 2..args.window :
                     /\ closes' = Append(closes, [sym |-> args.symbols[fi], k |-> k])
                     /\ log' = log
            /\ \/ log' = log
               \/ /\ log' = Append(log, [msg |-> "Skip", about |-> args.symbols[fi]])
                  /\ closes' = closes]_vars
    /\ [](args.fn = "build_markowitz_portfolio" =>
            /\ \A i \in 1..Len(closes) :
                  /\ closes[i].k >= 2
                  /\ \E j \in 1..(fi - 1) : args.symbols[j] = closes[i].sym
                  /\ ~\E l \in 1..Len(log) :
                        log[l].msg = "Skip" /\ log[l].about = closes[i].sym
            /\ \A i, j \in 1..Len(closes) :
                  i < j => PositionOf(closes[i].sym) < PositionOf(closes[j].sym)
            /\ returns_df.some => FetchLeft /\ closes # <<>>
            /\ FetchRaised => FetchLeft /\ outcome.value.type = "ValueError"
            /\ FetchLeft =>
                  /\ closes = <<>> <=> FetchRaised
                  /\ closes # <<>> =>
                        /\ returns_df.some
                        /\ returns_df.val.columns = KeptSymbols)

\* The table came back with one column: of the other two symbols one raised
\* and was printed as skipped, one had fewer than 2 candles.
C12_Witness ==
    /\ returns_df.some
    /\ returns_df.val.columns = <<"C">>
    /\ log = <<[msg |-> "Skip", about |-> "A"]>>
    /\ FetchLeft

\* ----------------------------------------------------------- C13
\* A min_variance_portfolio frame called from efficient_frontier is running
\* its solve.
AnchorSolving ==
    /\ Len(stack) >= 2
    /\ Top.fn = "min_variance_portfolio"
    /\ stack[Len(stack) - 1].fn = "efficient_frontier"
    /\ solver.state # "idle"

\* C13: efficient_frontier first runs a min-variance solve for the lower end
\* of its grid, long-only whatever allow_short is; no grid is laid and no
\* grid-point solve is started before that solve has converged; when it does
\* not converge, efficient_frontier ends in the ValueError of
\* min_variance_portfolio, with no curve and no grid-point solve (the
\* orchestrator catches that error and leaves efficient_frontier None).
C13_AnchorFailureAborts ==
    /\ AnchorSolving =>
          /\ solver.p.kind = "mv"
          /\ solver.p.lo = 0
          /\ solver.p.hi = One(solver.p.n)
          /\ ~sweep.set
          /\ solves.fr = 0
    /\ (sweep.set \/ solves.fr > 0) =>
          /\ memo.mv.some
          /\ memo.mv.val.result.success
          /\ memo.mv.val.p.lo = 0
          /\ memo.mv.val.p.hi = One(memo.mv.val.p.n)
          /\ solves.mv >= 1
    /\ MvFailed => ~sweep.set /\ solves.fr = 0
    /\ (args.fn = "efficient_frontier" /\ MvFailed /\ Finished) =>
          /\ Raised
          /\ outcome.value.type = "ValueError"
          /\ outcome.value.by = "min_variance_portfolio"
    /\ (args.fn = "build_markowitz_portfolio" /\ MvFailed /\ Returned) =>
          /\ outcome.value.efficient_frontier = None
          /\ ~args.max_sharpe_only => Logged("Efficient frontier failed")

\* efficient_frontier, asked for a long-short curve of 2 or more points, has
\* ended in the error of its first solve.
C13_Witness ==
    /\ args.fn = "efficient_frontier"
    /\ args.allow_short
    /\ RequestedPoints >= 2
    /\ Raised
    /\ MvFailed
    /\ memo.mv.val.p.lo = 0

\* ----------------------------------------------------------- C14
StageKeys == {"min_variance", "max_sharpe", "efficient_frontier"}

\* An entry of the result is None or a record with every field of its stage.
CompleteOrNone(result) ==
    /\ result.min_variance.some =>
          DOMAIN result.min_variance.val = {"weights", "expected_return", "volatility"}
    /\ result.max_sharpe.some =>
          DOMAIN result.max_sharpe.val =
              {"weights", "expected_return", "volatility", "sharpe_ratio"}
    /\ result.efficient_frontier.some =>
          /\ DOMAIN result.efficient_frontier.val = {"volatilities", "returns"}
          /\ Len(result.efficient_frontier.val.volatilities)
                = Len(result.efficient_frontier.val.returns)

\* C14: in build_markowitz_portfolio, once (mu, cov) is estimated, the three
\* stages are isolated.  No step changes returns_df, symbols_used or an entry
\* a stage has written; a stage that fails leaves its own entry None and one
\* that succeeds fills it; the later stages are attempted whatever failed
\* before them; and the call always returns (never raises) a record with the
\* keys returns_df, symbols_used, min_variance, max_sharpe and
\* efficient_frontier whose last three entries are None or complete.
C14_StagesIsolated ==
    /\ [][(out.some /\ out'.some) =>
            /\ out'.val.returns_df = out.val.returns_df
            /\ out'.val.symbols_used = out.val.symbols_used
            /\ \A key \in StageKeys :
                  out.val[key].some => out'.val[key] = out.val[key]]_vars
    /\ [](args.fn = "build_markowitz_portfolio" =>
            /\ out.some <=> est.set
            /\ out.some =>
                  /\ DOMAIN out.val = {"returns_df", "symbols_used"} \cup StageKeys
                  /\ CompleteOrNone(out.val)
                  /\ MvFailed => out.val.min_variance = None
                  /\ MsFailed => out.val.max_sharpe = None
                  /\ MvFailed => out.val.efficient_frontier = None
            /\ (est.set /\ Finished) =>
                  /\ Returned
                  /\ outcome.value = out.val
                  /\ solves.mv >= 1
                  /\ solves.ms >= 1
                  /\ ~args.max_sharpe_only => solves.mv >= 2
                  /\ out.val.min_variance.some <=> ~MvFailed
                  /\ out.val.max_sharpe.some <=> ~MsFailed
                  /\ out.val.efficient_frontier.some <=>
                        (~args.max_sharpe_only /\ ~MvFailed))

\* The run has returned with its max-Sharpe solve failed in the middle: the
\* min-variance entry written before it and the frontier computed after it
\* are both there.
C14_Witness ==
    /\ args.fn = "build_markowitz_portfolio"
    /\ Returned
    /\ MsFailed
    /\ outcome.value.max_sharpe = None
    /\ outcome.value.min_variance.some
    /\ outcome.value.efficient_frontier.some

====
